---------------------------- MODULE Spec2Model ----------------------------
(***************************************************************************)
(* Model of src/electricfields.ipynb: the numerical electric field of      *)
(* uniformly charged rectangular plates (constructPlateEfield), the        *)
(* parallel-plate capacitor built from two of them                         *)
(* (constructEfieldParallel), and the notebook session that sets the       *)
(* global eps0, builds evaluators and calls them.                          *)
(*                                                                         *)
(* Numbers.  Python floats are modelled by exact real arithmetic, so       *)
(* floating-point rounding is abstracted away:                             *)
(*   - a rational is a pair <<n, d>> in lowest terms with d > 0;           *)
(*   - r2^(-3/2) of a positive rational r2 is q*sqrt(f) with q rational    *)
(*     and f a squarefree integer; a finite field value is a finite sum of *)
(*     such terms, kept as a function  f |-> q  (q # 0).  Square roots of  *)
(*     distinct squarefree integers are linearly independent over the      *)
(*     rationals, so two such sums are equal as functions exactly when     *)
(*     they are equal as real numbers;                                     *)
(*   - the IEEE special values that the code can produce (inf from         *)
(*     np.power(0.0, -1.5), nan from 0*inf and inf-inf) are kept as        *)
(*     separate values with IEEE's rules;                                  *)
(*   - preFactor and every field value carry the common factor 1/pi of     *)
(*     1/(4*np.pi*eps0); only its rational multiplier is stored.           *)
(***************************************************************************)
EXTENDS Integers, Sequences, FiniteSets, TLC

VARIABLES eps0, slots, out, kept

vars == <<eps0, slots, out, kept>>

-----------------------------------------------------------------------------
(* Exact rational arithmetic (the real-number reading of Python floats).   *)

Abs(n) == IF n < 0 THEN -n ELSE n

RECURSIVE GCD(_, _)
GCD(a, b) == IF b = 0 THEN a ELSE GCD(b, a % b)

Rat(n, d) ==
    LET g == GCD(Abs(n), Abs(d))
        s == IF d < 0 THEN -1 ELSE 1
    IN  <<(s * n) \div g, (s * d) \div g>>

Int2R(n) == <<n, 1>>
Zero == Int2R(0)

\* p + q over the least common denominator (small intermediate products).
RAdd(p, q) ==
    LET g == GCD(p[2], q[2])
    IN  Rat(p[1] * (q[2] \div g) + q[1] * (p[2] \div g), (p[2] \div g) * q[2])
RNeg(p)    == <<-p[1], p[2]>>
RSub(p, q) == RAdd(p, RNeg(q))
\* p * q, cancelling across the factors before multiplying.
RMul(p, q) ==
    LET g == GCD(Abs(p[1]), q[2])
        h == GCD(Abs(q[1]), p[2])
    IN  Rat((p[1] \div g) * (q[1] \div h), (p[2] \div h) * (q[2] \div g))
\* Python's / on numbers: the caller raises ZeroDivisionError when q = 0.
RDiv(p, q) == RMul(p, IF q[1] < 0 THEN <<-q[2], -q[1]>> ELSE <<q[2], q[1]>>)
RSq(p)     == RMul(p, p)

\* The function f itself, with every value computed once (f @@ <<>> = f): TLC
\* otherwise recomputes a function expression's value at each application.
Eager(f) == f @@ <<>>


-----------------------------------------------------------------------------
(* Real values of the form  sum_f q_f*sqrt(f)  and the IEEE special values.  *)

\* The largest a with a*a dividing n (n > 0), by trial division from k up.
RECURSIVE SquarePart(_, _)
SquarePart(n, k) ==
    IF k * k > n THEN 1
    ELSE IF n % (k * k) = 0 THEN k * SquarePart(n \div (k * k), k)
    ELSE SquarePart(n, k + 1)

SurdZero == [f \in {} |-> Zero]
Surd(q, f) == IF q[1] = 0 THEN SurdZero ELSE [g \in {f} |-> q]
SCoef(s, f) == IF f \in DOMAIN s THEN s[f] ELSE Zero
SAdd(s, t) ==
    LET D == DOMAIN s \cup DOMAIN t
    IN  Eager([f \in {g \in D : RAdd(SCoef(s, g), SCoef(t, g))[1] # 0}
                  |-> RAdd(SCoef(s, f), SCoef(t, f))])
SScale(c, s) == IF c[1] = 0 THEN SurdZero ELSE Eager([f \in DOMAIN s |-> RMul(c, s[f])])

Fin(s) == [k |-> "fin", s |-> s]
NaN    == [k |-> "nan", s |-> SurdZero]
PosInf == [k |-> "inf", s |-> SurdZero]
NegInf == [k |-> "-inf", s |-> SurdZero]
FZero  == Fin(SurdZero)
IsFinite(v) == v.k = "fin"

FNeg(v) ==
    CASE v.k = "fin"  -> Fin(SScale(Int2R(-1), v.s))
      [] v.k = "inf"  -> NegInf
      [] v.k = "-inf" -> PosInf
      [] OTHER        -> NaN

\* float * float where the left factor is a finite rational c:  0*inf = nan.
FScale(c, v) ==
    CASE v.k = "fin" -> Fin(SScale(c, v.s))
      [] v.k = "nan" -> NaN
      [] OTHER       -> IF c[1] = 0 THEN NaN
                        ELSE IF c[1] > 0 THEN v ELSE FNeg(v)

\* float + float:  nan absorbs, inf + (-inf) = nan.
FAdd(u, v) ==
    CASE u.k = "nan" \/ v.k = "nan" -> NaN
      [] u.k = "fin" /\ v.k = "fin" -> Fin(SAdd(u.s, v.s))
      [] u.k = "fin"                -> v
      [] v.k = "fin"                -> u
      [] OTHER                      -> IF u.k = v.k THEN u ELSE NaN

\* Mutant of power32: the singular distance clamped to a zero contribution.
power32_clamped(r2) ==
    IF r2[1] = 0 THEN FZero
    ELSE LET n == r2[1]
             d == r2[2]
             a == SquarePart(n, 2)
             b == SquarePart(d, 2)
         IN  Fin(Surd(Rat(d * a * b, n * n), (n \div (a * a)) * (d \div (b * b))))

\* np.power(r2, -3/2) for r2 >= 0.  For r2 = n/d > 0 with n = a*a*f1 and
\* d = b*b*f2:  r2^(-3/2) = (d*a*b/(n*n)) * sqrt(f1*f2).  np.power(0.0, -1.5)
\* is inf (numpy warns, it does not raise).
power32(r2) ==
    IF r2[1] = 0 THEN PosInf
    ELSE LET n == r2[1]
             d == r2[2]
             a == SquarePart(n, 2)
             b == SquarePart(d, 2)
         IN  Fin(Surd(Rat(d * a * b, n * n), (n \div (a * a)) * (d \div (b * b))))

\* np.sum of a sequence of floats.
RECURSIVE npsum(_)
npsum(seq) == IF seq = <<>> THEN FZero ELSE FAdd(Head(seq), npsum(Tail(seq)))

-----------------------------------------------------------------------------
(* numpy's grid helpers.                                                   *)

\* np.linspace(start, stop, num) for num >= 0 (a negative num raises
\* ValueError in numpy; the caller models the raise): arange(num)*step+start
\* with step = (stop-start)/(num-1), the last sample overwritten by stop.
linspace(start, stop, num) ==
    Eager([i \in 1..num |->
        IF num = 1 THEN start
        ELSE IF i = num THEN stop
        ELSE RAdd(RMul(Int2R(i - 1), RDiv(RSub(stop, start), Int2R(num - 1))), start)])

\* np.meshgrid(xs, ys) with the default indexing 'xy': two matrices of shape
\* (len(ys), len(xs)), X[j][i] = xs[i] and Y[j][i] = ys[j].
meshgridX(xs, ys) == Eager([j \in 1..Len(ys) |-> Eager([i \in 1..Len(xs) |-> xs[i]])])
meshgridY(xs, ys) == Eager([j \in 1..Len(ys) |-> Eager([i \in 1..Len(xs) |-> ys[j]])])

-----------------------------------------------------------------------------
(* The notebook's functions.                                               *)

\* The global eps0 is <<v>> once the first code cell (the imports and
\* eps0 = v) has run and Unset before: then neither np nor eps0 is bound.
Unset == <<>>
Bound(v) == <<v>>
Eps0Initial == 42

None == [kind |-> "none"]

Raised(exc, at) == [status |-> exc, raisedAt |-> at, ev |-> None]
Returned(ev)    == [status |-> "returned", raisedAt |-> "nowhere", ev |-> ev]

\* The exceptions constructPlateEfield can end with, by the stage they leave.
PitchZeroDivision     == Raised("ZeroDivisionError", "pitch")
GridNameError         == Raised("NameError", "grid")
GridValueError        == Raised("ValueError", "grid")
PreFactorZeroDivision == Raised("ZeroDivisionError", "prefactor")

\* Mutant of centers: the samples start at the plate's edge, the cells'
\* lower corners instead of their centres.
centers_fromEdge(L, d, N) ==
    linspace(RDiv(Int2R(-L), Int2R(2)), RSub(RDiv(Int2R(L), Int2R(2)), d), N)

\* The cell-centre samples along one axis: np.linspace(-L/2+d/2, L/2-d/2, N).
centers(L, d, N) ==
    linspace(RAdd(RDiv(Int2R(-L), Int2R(2)), RDiv(d, Int2R(2))),
             RSub(RDiv(Int2R(L), Int2R(2)), RDiv(d, Int2R(2))), N)

\* Mutant of cellArea: dx*dx, the area of a square cell of side dx.
cellArea_square(dx, dy) == RMul(dx, dx)
cellArea(dx, dy) == RMul(dx, dy)
cellCharge(chargeDensity, dx, dy) == RMul(Int2R(chargeDensity), cellArea(dx, dy))
\* Mutant of preFactor: the notebook's first eps0 instead of the global's
\* value at the call.
preFactor_initialEps0(chargeDensity, dx, dy, eps) ==
    RDiv(cellCharge(chargeDensity, dx, dy), Int2R(4 * Eps0Initial))
\* cellCharge/(4*np.pi*eps0), as the rational multiplier of 1/pi.
preFactor(chargeDensity, dx, dy, eps) ==
    RDiv(cellCharge(chargeDensity, dx, dy), Int2R(4 * eps))

\* Lines 77-83 of constructPlateEfield for cell dimensions dx, dy: the
\* closure of the inner Efield.  It holds xCell, yCell and preFactor; args
\* and eps0Read are history fields, the call's arguments and the value of
\* the global eps0 that line 83 read.
closure(chargeDensity, Lx, Ly, Nx, Ny, eps, dx, dy) ==
    [kind      |-> "plate",
     xCell     |-> meshgridX(centers(Lx, dx, Nx), centers(Ly, dy, Ny)),
     yCell     |-> meshgridY(centers(Lx, dx, Nx), centers(Ly, dy, Ny)),
     preFactor |-> preFactor(chargeDensity, dx, dy, eps),
     args      |-> <<chargeDensity, Lx, Ly, Nx, Ny>>,
     eps0Read  |-> eps]

\* Lines 73-83 once nothing has raised: dx, dy = Lx/Nx, Ly/Ny and the rest.
plateClosure(chargeDensity, Lx, Ly, Nx, Ny, eps) ==
    closure(chargeDensity, Lx, Ly, Nx, Ny, eps,
            RDiv(Int2R(Lx), Int2R(Nx)), RDiv(Int2R(Ly), Int2R(Ny)))

\* Mutant of constructPlateEfield: the plate dimensions are checked first
\* and a non-positive one ends the call.
constructPlateEfield_checkedLengths(chargeDensity, Lx, Ly, Nx, Ny) ==
    IF Lx <= 0 \/ Ly <= 0 THEN GridValueError
    ELSE IF Nx = 0 \/ Ny = 0 THEN PitchZeroDivision
    ELSE IF eps0 = Unset THEN GridNameError
    ELSE IF Nx < 0 \/ Ny < 0 THEN GridValueError
    ELSE IF eps0[1] = 0 THEN PreFactorZeroDivision
    ELSE Returned(plateClosure(chargeDensity, Lx, Ly, Nx, Ny, eps0[1]))

\* constructPlateEfield(chargeDensity, Lx, Ly, Nx, Ny) with the global eps0,
\* for Python numbers: what the call raises and where, or the closure it
\* returns.  Lx/Nx and Ly/Ny raise ZeroDivisionError (line 73); np is
\* unbound in a kernel that has not run the first cell (line 77);
\* np.linspace raises ValueError on a negative count (lines 77-78);
\* cellCharge/(4*np.pi*eps0) raises ZeroDivisionError when eps0 is 0
\* (line 83).  Nothing else is checked.
constructPlateEfield(chargeDensity, Lx, Ly, Nx, Ny) ==
    IF Nx = 0 \/ Ny = 0 THEN PitchZeroDivision
    ELSE IF eps0 = Unset THEN GridNameError
    ELSE IF Nx < 0 \/ Ny < 0 THEN GridValueError
    ELSE IF eps0[1] = 0 THEN PreFactorZeroDivision
    ELSE Returned(plateClosure(chargeDensity, Lx, Ly, Nx, Ny, eps0[1]))

\* Mutant of closurePreFactor: the prefactor recomputed at each call from
\* the global eps0 of the moment.
closurePreFactor_currentEps0(ev) ==
    RDiv(RMul(ev.preFactor, Int2R(ev.eps0Read)), Int2R(eps0[1]))
\* The preFactor the inner Efield uses: the closure's, fixed at construction.
closurePreFactor(ev) == ev.preFactor

\* Lines 94-96 for one cell: dEx, dEy, dEz from the cell's x-xCell, y-yCell
\* and Rinv3.
dE(pf, ddx, ddy, z, Rinv3) ==
    <<FScale(RMul(pf, ddx), Rinv3), FScale(RMul(pf, ddy), Rinv3),
      FScale(RMul(pf, z), Rinv3)>>

\* Lines 91-96 for one cell: Rinv3 = ((x-xCell)^2+(y-yCell)^2+z^2)^(-3/2).
cellField(pf, ddx, ddy, z) ==
    dE(pf, ddx, ddy, z, power32(RAdd(RAdd(RSq(ddx), RSq(ddy)), RSq(z))))

\* Line 99: np.sum(dEx), np.sum(dEy), np.sum(dEz) over the cells.
sumCells(d) ==
    <<npsum(Eager([c \in DOMAIN d |-> d[c][1]])),
      npsum(Eager([c \in DOMAIN d |-> d[c][2]])),
      npsum(Eager([c \in DOMAIN d |-> d[c][3]]))>>

\* The inner Efield(x, y, z) of a plate closure at one point; the cells are
\* taken in row-major order, cell c at row ((c-1) div cols)+1 and column
\* ((c-1) mod cols)+1.
Efield(ev, x, y, z) ==
    LET rows == Len(ev.xCell)
        cols == Len(ev.xCell[1])
    IN  sumCells(Eager([c \in 1..(rows * cols) |->
            cellField(closurePreFactor(ev),
                      RSub(x, ev.xCell[((c - 1) \div cols) + 1][((c - 1) % cols) + 1]),
                      RSub(y, ev.yCell[((c - 1) \div cols) + 1][((c - 1) % cols) + 1]),
                      z)]))

\* A call argument: a scalar (dim 0) or a one-dimensional array (dim 1).
Scalar(r) == [a |-> <<r>>, dim |-> 0]
Array(seq) == [a |-> seq, dim |-> 1]
Size(A) == Len(A.a)

Max(S) == CHOOSE m \in S : \A n \in S : n <= m

\* numpy broadcasting of scalars and 1-d arrays: lengths other than 1 agree.
LongLens(args) == {Size(args[i]) : i \in DOMAIN args} \ {1}
Broadcastable(args) == Cardinality(LongLens(args)) <= 1
BroadcastDim(args) == Max({args[i].dim : i \in DOMAIN args})
BroadcastLen(args) == IF LongLens(args) = {} THEN 1 ELSE Max(LongLens(args))
At(A, i) == IF Size(A) = 1 THEN A.a[1] ELSE A.a[i]

EvalRaised(exc) == [status |-> exc, E |-> <<>>]
EvalReturned(Ex, Ey, Ez) == [status |-> "returned", E |-> <<Ex, Ey, Ez>>]
VectorizeValueError == EvalRaised("ValueError")

\* The three output arrays of shape dim from the per-element results r.
outputs(dim, r) ==
    EvalReturned([a |-> Eager([i \in DOMAIN r |-> r[i][1]]), dim |-> dim],
                 [a |-> Eager([i \in DOMAIN r |-> r[i][2]]), dim |-> dim],
                 [a |-> Eager([i \in DOMAIN r |-> r[i][3]]), dim |-> dim])

\* np.vectorize(Efield)(x, y, z): ValueError on a size-0 input (no otypes
\* are set) and on shapes that do not broadcast; else Efield element by
\* element, one output array per component, of the broadcast shape.
vectorize(ev, X, Y, Z) ==
    IF Size(X) = 0 \/ Size(Y) = 0 \/ Size(Z) = 0 THEN VectorizeValueError
    ELSE IF ~Broadcastable(<<X, Y, Z>>) THEN VectorizeValueError
    ELSE outputs(BroadcastDim(<<X, Y, Z>>),
                 Eager([i \in 1..BroadcastLen(<<X, Y, Z>>) |->
                          Efield(ev, At(X, i), At(Y, i), At(Z, i))]))

\* ndarray + float and ndarray + ndarray (equal shapes), element by element.
shift(Z, d) == [a |-> Eager([i \in 1..Size(Z) |-> RAdd(Z.a[i], d)]), dim |-> Z.dim]
addArrays(A, B) ==
    [a |-> Eager([i \in 1..Size(A) |-> FAdd(A.a[i], B.a[i])]), dim |-> A.dim]

\* Lines 284-292: the closure of the capacitor's Efield from the two plate
\* constructions c1, c2; the first construction that raises ends the call.
parallelClosure(c1, c2, args) ==
    IF c1.status # "returned" THEN c1
    ELSE IF c2.status # "returned" THEN c2
    ELSE Returned([kind     |-> "parallel",
                   Efield1  |-> c1.ev,
                   Efield2  |-> c2.ev,
                   distance |-> args[2],
                   args     |-> args])

\* Mutant of constructEfieldParallel: both plates carry chargeDensity.
constructEfieldParallel_sameCharge(chargeDensity, distance, Lx, Ly, Nx, Ny) ==
    parallelClosure(constructPlateEfield(chargeDensity, Lx, Ly, Nx, Ny),
                    constructPlateEfield(chargeDensity, Lx, Ly, Nx, Ny),
                    <<chargeDensity, distance, Lx, Ly, Nx, Ny>>)

\* constructEfieldParallel(chargeDensity, distance, Lx, Ly, Nx, Ny): two
\* plate closures of opposite density.
constructEfieldParallel(chargeDensity, distance, Lx, Ly, Nx, Ny) ==
    parallelClosure(constructPlateEfield(chargeDensity, Lx, Ly, Nx, Ny),
                    constructPlateEfield(-chargeDensity, Lx, Ly, Nx, Ny),
                    <<chargeDensity, distance, Lx, Ly, Nx, Ny>>)

\* Line 290: Ex1+Ex2, Ey1+Ey2, Ez1+Ez2 (an exception of either call goes up).
addFields(r1, r2) ==
    IF r1.status # "returned" THEN r1
    ELSE IF r2.status # "returned" THEN r2
    ELSE EvalReturned(addArrays(r1.E[1], r2.E[1]),
                      addArrays(r1.E[2], r2.E[2]),
                      addArrays(r1.E[3], r2.E[3]))

\* Mutant of EfieldParallel: both plates are queried at z + distance/2.
EfieldParallel_sameShift(ev, X, Y, Z) ==
    addFields(vectorize(ev.Efield1, X, Y, shift(Z, RDiv(Int2R(ev.distance), Int2R(2)))),
              vectorize(ev.Efield2, X, Y, shift(Z, RDiv(Int2R(ev.distance), Int2R(2)))))

\* The inner Efield(x, y, z) of a capacitor closure (lines 287-290):
\* Efield1 at z + distance/2 and Efield2 at z - distance/2.
EfieldParallel(ev, X, Y, Z) ==
    addFields(vectorize(ev.Efield1, X, Y, shift(Z, RDiv(Int2R(ev.distance), Int2R(2)))),
              vectorize(ev.Efield2, X, Y, shift(Z, RDiv(Int2R(-ev.distance), Int2R(2)))))

\* Calling whatever evaluator a name is bound to.
call(ev, X, Y, Z) ==
    IF ev.kind = "plate" THEN vectorize(ev, X, Y, Z) ELSE EfieldParallel(ev, X, Y, Z)

-----------------------------------------------------------------------------
(* The notebook session: the state is the global eps0, the names bound to  *)
(* evaluators (slots), the outcome of the last call (out) and one earlier  *)
(* result of a still-bound evaluator that the user kept (kept).            *)

MaxN     == 2
MaxBatch == 3

Names      == {"Efield", "EfieldB"}
Densities  == {-1, 2}
Distances  == {1, 2}
Lengths    == {1, 2}
Eps0Values == {1, Eps0Initial}
\* Values a user may type, valid or not.
AnyEps0    == {-1, 0} \cup Eps0Values
AnyLengths == {-1, 0, 1, 2, 3}
AnyCounts  == -1..MaxN

\* Query coordinates, and the z arrays np.linspace(-c, c, n) the examples use.
\* The arguments of every call are drawn from these constant sets of argument
\* values (TLC builds a constant once, before the workers start; an argument
\* built inside Next would be shared between the workers unfinished).
Coords  == {Rat(-1, 2), Zero, Rat(1, 2)}
ZArrays == {Array(linspace(RNeg(c), c, n)) : c \in {Rat(1, 2), Int2R(1)}, n \in 0..MaxBatch}
ZArgs   == {Scalar(c) : c \in Coords \cup {Int2R(1)}} \cup ZArrays
XYArgs  == {Scalar(c) : c \in Coords}
XArrays == {Array(<<Zero, Rat(1, 2)>>)}
\* The session's query points: above the plate, on the axis and off it.
SessionX == {Scalar(Zero), Scalar(Rat(1, 2))}
OnAxis   == Scalar(Zero)
Above    == Scalar(Int2R(1))

NoCall == [op |-> "none"]

\* Running (or editing and re-running) the first code cell: eps0 = v.
SetEps0(v) ==
    /\ eps0' = Bound(v)
    /\ UNCHANGED <<slots, out, kept>>

\* name = constructor(...): the name is rebound only when the call returns;
\* a kept result of the evaluator the name held before is dropped with it.
Bind(k, op, args, c) ==
    /\ slots' = IF c.status = "returned" THEN [slots EXCEPT ![k] = c.ev] ELSE slots
    /\ out' = [op |-> op, slot |-> k, args |-> args, eps0 |-> eps0,
               status |-> c.status, raisedAt |-> c.raisedAt]
    /\ kept' = IF c.status = "returned" /\ kept.op = "Efield" /\ kept.slot = k
               THEN NoCall ELSE kept
    /\ UNCHANGED eps0

\* k = constructPlateEfield(chargeDensity, Lx, Ly, Nx, Ny)
ConstructPlate(k, chargeDensity, Lx, Ly, Nx, Ny) ==
    Bind(k, "constructPlateEfield", <<chargeDensity, Lx, Ly, Nx, Ny>>,
         constructPlateEfield(chargeDensity, Lx, Ly, Nx, Ny))

\* k = constructEfieldParallel(chargeDensity, distance, Lx, Ly, Nx, Ny)
ConstructParallel(k, chargeDensity, distance, Lx, Ly, Nx, Ny) ==
    Bind(k, "constructEfieldParallel", <<chargeDensity, distance, Lx, Ly, Nx, Ny>>,
         constructEfieldParallel(chargeDensity, distance, Lx, Ly, Nx, Ny))

\* What the user sees of a call k(x, y, z) that ended as r; eps0 is a
\* history field, the value of the global eps0 during the call.
Called(k, X, Y, Z, r) ==
    [op |-> "Efield", slot |-> k, x |-> X, y |-> Y, z |-> Z, eps0 |-> eps0,
     status |-> r.status, E |-> r.E]

\* Ex, Ey, Ez = k(x, y, z)
Evaluate(k, X, Y, Z) ==
    /\ slots[k] # None
    /\ out' = Called(k, X, Y, Z, call(slots[k], X, Y, Z))
    /\ UNCHANGED <<eps0, slots, kept>>

\* The user keeps the last result under other names (Ex_plate, ...).
Keep ==
    /\ out.op = "Efield"
    /\ kept' = out
    /\ UNCHANGED <<eps0, slots, out>>

EmptySlots == [k \in Names |-> None]

\* The session: a fresh kernel, then cells run in any order, any number of
\* times: eps0 is set and corrected, a square plate and a capacitor are
\* built under either name, and called on and off the axis.
Init ==
    /\ eps0 = Unset
    /\ slots = EmptySlots
    /\ out = NoCall
    /\ kept = NoCall

Next ==
    \/ \E v \in Eps0Values : SetEps0(v)
    \/ \E k \in Names : ConstructPlate(k, 2, 2, 2, 2, 2)
    \/ \E k \in Names : ConstructParallel(k, 2, 2, 2, 2, 2, 2)
    \/ \E k \in Names, X \in SessionX : Evaluate(k, X, OnAxis, Above)
    \/ Keep

Spec == Init /\ [][Next]_vars

\* One call of constructPlateEfield in a kernel whose eps0 is unset or holds
\* any value, with any arguments.
InitConstruct ==
    /\ eps0 \in {Unset} \cup {Bound(v) : v \in AnyEps0}
    /\ slots = EmptySlots
    /\ out = NoCall
    /\ kept = NoCall

NextConstruct ==
    /\ out = NoCall
    /\ \E cd \in Densities, Lx \in AnyLengths, Ly \in AnyLengths,
          Nx \in AnyCounts, Ny \in AnyCounts :
          ConstructPlate("Efield", cd, Lx, Ly, Nx, Ny)

SpecConstruct == InitConstruct /\ [][NextConstruct]_vars

\* One plate evaluator built with valid parameters, then one call of it with
\* scalars or arrays.
InitCall ==
    /\ eps0 = Bound(1)
    /\ slots = EmptySlots
    /\ out = NoCall
    /\ kept = NoCall

NextCall ==
    \/ /\ out = NoCall
       /\ \E cd \in Densities, Lx \in Lengths, Ly \in Lengths,
             Nx \in 1..MaxN, Ny \in 1..MaxN :
             ConstructPlate("Efield", cd, Lx, Ly, Nx, Ny)
    \/ /\ out.op = "constructPlateEfield"
       /\ \E X \in XYArgs, Y \in XYArgs, Z \in ZArgs :
             Evaluate("Efield", X, Y, Z)
    \/ /\ out.op = "constructPlateEfield"
       /\ \E X \in XArrays, Z \in ZArrays :
             Evaluate("Efield", X, OnAxis, Z)

SpecCall == InitCall /\ [][NextCall]_vars

\* One capacitor built with valid parameters, then one call of it.
NextParallel ==
    \/ /\ out = NoCall
       /\ \E cd \in Densities, d \in Distances, Lx \in Lengths, Ly \in Lengths,
             Nx \in 1..MaxN, Ny \in 1..MaxN :
             ConstructParallel("Efield", cd, d, Lx, Ly, Nx, Ny)
    \/ /\ out.op = "constructEfieldParallel"
       /\ \E X \in SessionX, Z \in ZArgs :
             Evaluate("Efield", X, OnAxis, Z)

SpecParallel == InitCall /\ [][NextParallel]_vars

-----------------------------------------------------------------------------
(* Properties of constructPlateEfield, under SpecConstruct.                *)

PlateCallDone == out.op = "constructPlateEfield"
PlateReturned == PlateCallDone /\ out.status = "returned"

\* The cell centres of a plate closure, as a set of points.
Centres(ev) ==
    {<<ev.xCell[j][i], ev.yCell[j][i]>> :
        j \in 1..Len(ev.xCell), i \in 1..Len(ev.xCell[1])}

\* The charge each cell carries, recovered from the closure's preFactor:
\* cellCharge = preFactor*(4*np.pi*eps0).
ChargePerCell(ev) == RMul(ev.preFactor, Int2R(4 * ev.eps0Read))

\* C1 as claimed: a call with Lx <= 0 or Ly <= 0 or Nx < 1 or Ny < 1 or
\* eps0 <= 0 ends in an error before any grid or prefactor is computed (no
\* later than the statement that would build the grid) and returns no
\* evaluator.
C1_RejectsEveryViolation ==
    (/\ PlateCallDone
     /\ \/ out.args[2] <= 0 \/ out.args[3] <= 0
        \/ out.args[4] < 1 \/ out.args[5] < 1
        \/ (out.eps0 # Unset /\ out.eps0[1] <= 0))
    => /\ out.status # "returned"
       /\ out.raisedAt # "prefactor"
       /\ slots[out.slot] = None

\* C1 as amended: constructPlateEfield checks nothing itself.  A call ends
\* in an error, and binds no evaluator, exactly when an operation it runs
\* fails: Lx/Nx or Ly/Ny with a zero count (ZeroDivisionError, before the
\* grid), an unbound np/eps0 (NameError), np.linspace with a negative count
\* (ValueError, while the grid is built), the division by 4*pi*eps0 with
\* eps0 = 0 (ZeroDivisionError, after the grid is built).  Every other call,
\* also with Lx <= 0, Ly <= 0 or eps0 < 0, returns an evaluator.
C1_FailsOnlyWhereArithmeticFails ==
    PlateCallDone =>
        LET Nx == out.args[4]
            Ny == out.args[5]
        IN  /\ (Nx = 0 \/ Ny = 0)
                => out.status = "ZeroDivisionError" /\ out.raisedAt = "pitch"
            /\ (Nx # 0 /\ Ny # 0 /\ out.eps0 = Unset)
                => out.status = "NameError"
            /\ (Nx # 0 /\ Ny # 0 /\ out.eps0 # Unset /\ (Nx < 0 \/ Ny < 0))
                => out.status = "ValueError" /\ out.raisedAt = "grid"
            /\ (Nx >= 1 /\ Ny >= 1 /\ out.eps0 # Unset /\ out.eps0[1] = 0)
                => out.status = "ZeroDivisionError" /\ out.raisedAt = "prefactor"
            /\ (Nx >= 1 /\ Ny >= 1 /\ out.eps0 # Unset /\ out.eps0[1] # 0)
                => /\ out.status = "returned"
                   /\ slots[out.slot] # None
                   /\ slots[out.slot].args = out.args
            /\ out.status # "returned" => slots[out.slot] = None

\* A plate of negative length under a negative eps0 was built and returned.
C1_Witness ==
    /\ PlateReturned
    /\ out.args[2] < 0 /\ out.args[3] = 0
    /\ out.eps0[1] < 0

\* C3: for Lx > 0, Ly > 0, Nx >= 1, Ny >= 1 the grid has exactly Nx*Ny cell
\* centres (Ny rows of Nx, all distinct), every cell carries the charge
\* chargeDensity*(Lx/Nx)*(Ly/Ny), and the cell charges add up to
\* chargeDensity*Lx*Ly.
C3_ChargeConservation ==
    (PlateReturned /\ out.args[2] > 0 /\ out.args[3] > 0) =>
        LET ev == slots[out.slot]
            cd == out.args[1]
            Lx == out.args[2]
            Ly == out.args[3]
            Nx == out.args[4]
            Ny == out.args[5]
        IN  /\ Len(ev.xCell) = Ny /\ Len(ev.yCell) = Ny
            /\ \A j \in 1..Ny : Len(ev.xCell[j]) = Nx /\ Len(ev.yCell[j]) = Nx
            /\ Cardinality(Centres(ev)) = Nx * Ny
            /\ ChargePerCell(ev)
                  = RMul(Int2R(cd), RMul(RDiv(Int2R(Lx), Int2R(Nx)),
                                         RDiv(Int2R(Ly), Int2R(Ny))))
            /\ RMul(Int2R(Cardinality(Centres(ev))), ChargePerCell(ev))
                  = Int2R(cd * Lx * Ly)

\* A 2-by-1 grid on a plate with Lx # Ly and a negative density.
C3_Witness ==
    /\ PlateReturned
    /\ out.args = <<-1, 1, 2, 2, 1>>
    /\ Cardinality(Centres(slots[out.slot])) = 2

-----------------------------------------------------------------------------
(* Properties of the session, under Spec.                                  *)

Constructors == {"constructPlateEfield", "constructEfieldParallel"}

\* The plate closures an evaluator is made of.
Plates(ev) ==
    IF ev.kind = "plate" THEN {ev}
    ELSE IF ev.kind = "parallel" THEN {ev.Efield1, ev.Efield2}
    ELSE {}
LivePlates == UNION {Plates(slots[k]) : k \in Names}

\* The eps0 a plate closure's preFactor was computed with, recovered from
\* the preFactor and the plate's parameters: cellCharge/(4*pi*preFactor).
Eps0Used(p) ==
    RDiv(cellCharge(p.args[1], RDiv(Int2R(p.args[2]), Int2R(p.args[4])),
                    RDiv(Int2R(p.args[3]), Int2R(p.args[5]))),
         RMul(Int2R(4), p.preFactor))

\* C2 as claimed: every evaluator that exists uses the same eps0 in its
\* prefactor as every other, and none is built before eps0 is set.
C2_AllEvaluatorsShareEps0 ==
    /\ eps0 = Unset => LivePlates = {}
    /\ \A p \in LivePlates, q \in LivePlates : Eps0Used(p) = Eps0Used(q)

\* C2 as amended: no evaluator is built before eps0 is set; every evaluator
\* uses in its prefactor the eps0 that was in force when it was constructed,
\* the two plates of a capacitor the same one; an evaluator built before a
\* reassignment of eps0 keeps the earlier value.
C2_Eps0OfConstruction ==
    /\ eps0 = Unset => LivePlates = {}
    /\ \A p \in LivePlates : Eps0Used(p) = Int2R(p.eps0Read)
    /\ (out.op \in Constructors /\ out.status = "returned")
          => \A p \in Plates(slots[out.slot]) : Eps0Used(p) = Int2R(out.eps0[1])
    /\ (out.op \in Constructors /\ out.eps0 = Unset) => out.status = "NameError"

\* Two evaluators are bound whose prefactors were computed with different
\* eps0, one of them a capacitor just built.
C2_Witness ==
    /\ out.op = "constructEfieldParallel" /\ out.status = "returned"
    /\ \E p \in LivePlates : Eps0Used(p) # Int2R(out.eps0[1])

\* C9: calling an evaluator changes no evaluator, and a call of the same
\* evaluator at the same (x, y, z) returns what an earlier call returned,
\* whatever calls, constructions under the other name and reassignments of
\* eps0 lie between them: the prefactor is the one fixed at construction.
C9_SamePointSameResult ==
    (/\ kept.op = "Efield" /\ out.op = "Efield"
     /\ kept.slot = out.slot
     /\ kept.x = out.x /\ kept.y = out.y /\ kept.z = out.z)
    => kept.status = out.status /\ kept.E = out.E

\* A result was kept, eps0 was reassigned, and the evaluator was called
\* again at the same point, off the axis.
C9_Witness ==
    /\ kept.op = "Efield" /\ out.op = "Efield"
    /\ kept.slot = out.slot
    /\ kept.x = out.x /\ kept.y = out.y /\ kept.z = out.z
    /\ kept.eps0 # out.eps0
    /\ out.x.a[1] # Zero
    /\ out.status = "returned"

-----------------------------------------------------------------------------
(* Properties of one call, under SpecCall and SpecParallel.                *)

EfieldReturned == out.op = "Efield" /\ out.status = "returned"

\* The number of query points of the last call, and its i-th point.
Points == BroadcastLen(<<out.x, out.y, out.z>>)
PointX(i) == At(out.x, i)
PointY(i) == At(out.y, i)
PointZ(i) == At(out.z, i)

Negated(A) == [a |-> [i \in 1..Size(A) |-> RNeg(A.a[i])], dim |-> A.dim]

\* C4: at every query point the capacitor's evaluator returns, component by
\* component, the sum of the field of a plate of density +chargeDensity at
\* (x, y, z + distance/2) and of a plate of density -chargeDensity at
\* (x, y, z - distance/2).
C4_Superposition ==
    EfieldReturned =>
        LET a     == slots[out.slot].args
            plus  == plateClosure(a[1], a[3], a[4], a[5], a[6], out.eps0[1])
            minus == plateClosure(-a[1], a[3], a[4], a[5], a[6], out.eps0[1])
            half  == RDiv(Int2R(a[2]), Int2R(2))
        IN  \A i \in 1..Points :
              LET p == Efield(plus, PointX(i), PointY(i), RAdd(PointZ(i), half))
                  m == Efield(minus, PointX(i), PointY(i), RSub(PointZ(i), half))
              IN  \A c \in 1..3 :
                    /\ Size(out.E[c]) = Points
                    /\ out.E[c].a[i] = FAdd(p[c], m[c])

\* A capacitor was called off the axis with an array of three heights.
C4_Witness ==
    /\ EfieldReturned
    /\ slots[out.slot].kind = "parallel"
    /\ Points = 3
    /\ PointX(1) # Zero
    /\ IsFinite(out.E[1].a[1]) /\ out.E[1].a[1] # FZero
    /\ IsFinite(out.E[3].a[1]) /\ out.E[3].a[1] # FZero

\* The last call, of a capacitor, was at points (0, 0, z) of the axis.
OnAxisCall ==
    /\ EfieldReturned
    /\ out.x = OnAxis /\ out.y = OnAxis

\* The capacitor called at the mirror points (0, 0, -z).
MirrorZ == call(slots[out.slot], out.x, out.y, Negated(out.z))

\* C5 as claimed: on the axis Ez is odd in z, Ez(0,0,z) = -Ez(0,0,-z).
C5_EzOddOnAxis ==
    OnAxisCall =>
        \A i \in 1..Points :
            IsFinite(out.E[3].a[i]) => MirrorZ.E[3].a[i] = FNeg(out.E[3].a[i])

\* C5 as amended: on the axis Ez is even in z about the midplane,
\* Ez(0,0,z) = Ez(0,0,-z), at every z where it is finite, and it is
\* non-finite at z exactly when it is at -z.
C5_EzEvenOnAxis ==
    OnAxisCall =>
        \A i \in 1..Points :
            /\ IsFinite(out.E[3].a[i]) <=> IsFinite(MirrorZ.E[3].a[i])
            /\ IsFinite(out.E[3].a[i]) => MirrorZ.E[3].a[i] = out.E[3].a[i]

\* A capacitor was called on the axis at an array of heights and the first,
\* below the midplane, has a finite non-zero Ez.
C5_Witness ==
    /\ OnAxisCall
    /\ Points = 3
    /\ PointZ(1)[1] < 0
    /\ IsFinite(out.E[3].a[1]) /\ out.E[3].a[1] # FZero

\* The plate called at the mirror points (-x, -y, z).
MirrorXY == call(slots[out.slot], Negated(out.x), Negated(out.y), out.z)

\* C6: for a square plate (Lx = Ly), if the evaluator returns (Ex, Ey, Ez)
\* at (x, y, z) it returns (-Ex, -Ey, Ez) at (-x, -y, z), and the set of
\* cell centres is mapped onto itself by (xc, yc) -> (-xc, -yc).
C6_PointSymmetry ==
    (EfieldReturned /\ slots[out.slot].args[2] = slots[out.slot].args[3]) =>
        /\ Centres(slots[out.slot])
              = {<<RNeg(c[1]), RNeg(c[2])>> : c \in Centres(slots[out.slot])}
        /\ MirrorXY.status = "returned"
        /\ \A i \in 1..Points :
              /\ MirrorXY.E[1].a[i] = FNeg(out.E[1].a[i])
              /\ MirrorXY.E[2].a[i] = FNeg(out.E[2].a[i])
              /\ MirrorXY.E[3].a[i] = out.E[3].a[i]

\* A square plate was called off both axes, above the plate, where Ex and
\* Ey are finite and not zero.
C6_Witness ==
    /\ EfieldReturned
    /\ slots[out.slot].args[2] = slots[out.slot].args[3]
    /\ PointX(1) # Zero /\ PointY(1) # Zero /\ PointZ(1) # Zero
    /\ IsFinite(out.E[1].a[1]) /\ out.E[1].a[1] # FZero
    /\ IsFinite(out.E[2].a[1]) /\ out.E[2].a[1] # FZero

\* C7 as claimed: called with scalar x, y and an array of N z-values, for
\* every N, the evaluator returns three arrays of length N whose i-th
\* elements are what the scalar call at (x, y, z[i]) returns.
C7_BroadcastsEveryLength ==
    (out.op = "Efield" /\ out.x.dim = 0 /\ out.y.dim = 0 /\ out.z.dim = 1) =>
        /\ out.status = "returned"
        /\ \A c \in 1..3 :
              /\ out.E[c].dim = 1
              /\ Len(out.E[c].a) = Size(out.z)
              /\ \A i \in 1..Size(out.z) :
                    out.E[c].a[i]
                      = vectorize(slots[out.slot], out.x, out.y,
                                  Scalar(out.z.a[i])).E[c].a[1]

\* The i-th query point of the last call lies on a cell centre: r2 = 0.
Singular(i) ==
    /\ PointZ(i) = Zero
    /\ <<PointX(i), PointY(i)>> \in Centres(slots[out.slot])

\* C8: a call with a query point on a cell centre raises nothing; that
\* point's result is non-finite and every other point of the call gets a
\* finite one.
C8_SingularityIsAValue ==
    (/\ out.op = "Efield"
     /\ Broadcastable(<<out.x, out.y, out.z>>)
     /\ \E i \in 1..Points : Singular(i))
    => /\ out.status = "returned"
       /\ \A i \in 1..Points : \A c \in 1..3 :
             Singular(i) <=> ~IsFinite(out.E[c].a[i])

\* A batch of three heights whose middle point is a cell centre.
C8_Witness ==
    /\ EfieldReturned
    /\ Points = 3
    /\ Singular(2) /\ ~Singular(1) /\ ~Singular(3)

=============================================================================
